---- MODULE Spec2Model ----
(***************************************************************************)
(* Model of helpfultests: the captured-I/O assertion engine                *)
(* (_testcase_assert_add.py), the wrapped assertions                       *)
(* (_testcase_assert_mod.py), the marker decoder (__main__.py) and the     *)
(* runner's timeout (helpfultests.py).                                     *)
(*                                                                         *)
(* Texts are sequences of one-character strings.  The specifications       *)
(* share the variables:                                                    *)
(*   SpecSession  one call of __check_input around a function under test,  *)
(*                then the comparison of what it captured                  *)
(*   SpecScopes   nested capture helpers and no-print / no-input guards    *)
(*   SpecCompare  __check_output applied to pairs of texts                 *)
(*   SpecEnrich   a wrapped TestCase.assert* call                          *)
(*   SpecCodec    __convert_to_html on the encoding of a styled text       *)
(*   SpecDiff     __diff_line and __diff_lines                             *)
(*   SpecRunner   the tests of a suite under the runner's timer            *)
(***************************************************************************)
EXTENDS Integers, Sequences, FiniteSets, TLC

VARIABLES
    mode,          \* which specification is running: "session", "scopes", "compare", ...
    \* ---- __check_input: one capture session
    inpt,          \* the text given as the simulated user's input
    in_pos,        \* position of the in_ stream (in_.tell())
    out,           \* contents of the out stream (out.getvalue())
    inpt_ranges,   \* list of <<offset, length>>
    pc,            \* "running" while func executes, then "done"
    result,        \* what __check_input produced
    steps,         \* number of steps func has made
    echoed,        \* history: concatenation of every write and every read result of func
    funcReads,     \* history: <<len(out) before, len(data)>> of every read func made
    readData,      \* history: data returned by every instrumented read call
    pastEnd,       \* history: func asked for more input when none was left
    \* ---- nested scopes
    sys_stdout, sys_stdin, builtins_print, builtins_input,
    stack,         \* the open scopes, innermost last
    exc,           \* the exception in flight ("none" when there is none)
    lastExit,      \* history: the latest scope exit
    ops,           \* number of body steps made
    \* ---- __check_output
    printed_raw, expected_raw, whitespace, ordered, cmp,
    actual_block,  \* the text shown as 'Actual output' in the failure message
    \* ---- the other components, one record each
    codec,         \* __convert_to_html: the decoder's loop
    differ,        \* __diff_line and __diff_lines: a call and what it returned
    enrich,        \* a wrapped TestCase.assert* call and what left the wrapper
    runner         \* HelpfulTestRunner.run: the timer and the tests of the suite

sessionVars == <<inpt, in_pos, out, inpt_ranges, pc, result, steps, echoed, funcReads, readData,
                 pastEnd>>
scopeVars   == <<sys_stdout, sys_stdin, builtins_print, builtins_input, stack, exc, lastExit, ops>>
compareVars == <<printed_raw, expected_raw, whitespace, ordered, cmp, actual_block>>
otherVars   == <<codec, differ, enrich, runner>>
vars == <<mode, sessionVars, scopeVars, compareVars, otherVars>>

-----------------------------------------------------------------------------
\* the record of a component that is not part of the running specification
Idle == [pc |-> "idle"]

(* Bounds *)
MaxInput == 4
MaxSteps == 3

NL == "\n"
SP == " "
InputAlphabet == {"a", "b", NL}
WriteTexts == {<<"x">>, <<NL>>}
Prompts == {<< >>, <<"x">>}
ReadSizes == {-1, 0, 1}

-----------------------------------------------------------------------------
(* Text helpers: Python str methods *)

\* the characters str.rstrip() and str.split() treat as whitespace
Whitespace == {" ", "\t", "\n", "\r", "\f"}

RECURSIVE RStripChars(_, _)
\* s.rstrip(chars)
RStripChars(s, chars) ==
    IF s = << >> THEN s
    ELSE IF s[Len(s)] \in chars THEN RStripChars(SubSeq(s, 1, Len(s) - 1), chars)
    ELSE s

\* s.rstrip()
RStrip(s) == RStripChars(s, Whitespace)

RECURSIVE SplitOn(_, _)
\* s.split(sep) for a one-character sep: always at least one piece
SplitOn(s, sep) ==
    IF \E i \in 1..Len(s) : s[i] = sep
    THEN LET i == CHOOSE k \in 1..Len(s) : s[k] = sep /\ \A j \in 1..(k-1) : s[j] # sep
         IN <<SubSeq(s, 1, i - 1)>> \o SplitOn(SubSeq(s, i + 1, Len(s)), sep)
    ELSE <<s>>

RECURSIVE JoinWith(_, _)
\* sep.join(pieces)
JoinWith(pieces, sep) ==
    IF pieces = << >> THEN << >>
    ELSE IF Len(pieces) = 1 THEN pieces[1]
    ELSE pieces[1] \o <<sep>> \o JoinWith(Tail(pieces), sep)

RECURSIVE TextsUpTo(_, _)
\* all texts over alphabet of length at most n
TextsUpTo(alphabet, n) ==
    IF n = 0 THEN {<< >>}
    ELSE LET shorter == TextsUpTo(alphabet, n - 1)
         IN shorter \cup {t \o <<c>> : t \in shorter, c \in alphabet}

-----------------------------------------------------------------------------
(* io.StringIO *)

\* io.StringIO.read(in_, size): the data returned from position pos
StringIO_read(text, pos, size) ==
    IF size < 0 THEN SubSeq(text, pos + 1, Len(text))
    ELSE SubSeq(text, pos + 1, IF pos + size < Len(text) THEN pos + size ELSE Len(text))

\* io.StringIO.readline(in_): up to and including the next newline
StringIO_readline(text, pos) ==
    IF \E i \in (pos + 1)..Len(text) : text[i] = NL
    THEN LET i == CHOOSE k \in (pos + 1)..Len(text) :
                      text[k] = NL /\ \A j \in (pos + 1)..(k - 1) : text[j] # NL
         IN SubSeq(text, pos + 1, i)
    ELSE SubSeq(text, pos + 1, Len(text))

-----------------------------------------------------------------------------
(* The style markers: an invisible character put before every styled       *)
(* character.  A marker is one element of a text, like any character.      *)

BoldMarker      == "U+2060"
StrikeMarker    == "U+0334"
UnderlineMarker == "U+0333"
Markers == {BoldMarker, StrikeMarker, UnderlineMarker}

\* the letters and digits of the alphabets used here
Alnum == {"a", "b", "c", "s", "t", "x"}

\* the mathematical sans-serif bold form of a letter or digit, any other
\* character as it is
BoldChar(ch) == IF ch \in Alnum THEN "bold-" \o ch ELSE ch

\* Python's string[i:j] for 0 <= i, 0 <= j
Slice(string, i, j) ==
    LET n  == Len(string)
        lo == IF i < n THEN i ELSE n
        hi == IF j < n THEN j ELSE n
    IN SubSeq(string, lo + 1, hi)

RECURSIVE bold(_)
\* __bold(string): the marker, then the bold form, for every character
bold(string) ==
    IF string = << >> THEN << >>
    ELSE <<BoldMarker, BoldChar(string[1])>> \o bold(Tail(string))

\* __bold_substr(string, start, end)
bold_substr(string, start, end) ==
    Slice(string, 0, start) \o bold(Slice(string, start, end)) \o Slice(string, end, Len(string))

RECURSIVE MarkEach(_, _)
\* ''.join(charcode + ch for ch in text)
MarkEach(text, charcode) ==
    IF text = << >> THEN << >>
    ELSE <<charcode, text[1]>> \o MarkEach(Tail(text), charcode)

\* __strikethrough(text)
strikethrough(text) == MarkEach(text, StrikeMarker)

\* __underline(text)
underline(text) == MarkEach(text, UnderlineMarker)

-----------------------------------------------------------------------------
(* __check_input: the capture session *)

NoResult == [kind |-> "none", how |-> "none", hint |-> << >>, output |-> << >>, ranges |-> << >>]

\* mutant: the offset is taken after the echo was written
RangeOffset_AfterEcho(o, data) == Len(o) + Len(data)

\* the offset _read/_readline record for a read: len(out.getvalue()) before the echo
RangeOffset(o, data) == Len(o)

\* inpt_ranges.append((len(out.getvalue()), len(data)))
AppendRange(ranges, o, data) == Append(ranges, <<RangeOffset(o, data), Len(data)>>)

\* out.write(data): the echo of the data just read
EchoWrite(o, data) == o \o data

\* inpt[:-len(rem)].rstrip('\n').split('\n')[-1], for a non-empty rem
LeftoverHint(text, rem) ==
    LET used   == SubSeq(text, 1, Len(text) - Len(rem))
        pieces == SplitOn(RStripChars(used, {NL}), NL)
    IN pieces[Len(pieces)]

\* mutant: the end-of-input flag is looked at after the other checks
CheckInputOutcome_EofLast(has_eof_err, text, pos, o, ranges) ==
    LET blank == [kind |-> "none", hint |-> << >>, output |-> << >>, ranges |-> << >>,
                  pos |-> pos, out |-> o, inpt_ranges |-> ranges, reads |-> << >>]
        rem   == StringIO_read(text, pos, -1)
        rs    == AppendRange(ranges, o, rem)
        o2    == EchoWrite(o, rem)
    IN IF pos = 0 THEN [blank EXCEPT !.kind = "noinput"]
       ELSE IF rem # << >>
       THEN [kind |-> "leftover", hint |-> LeftoverHint(text, rem), output |-> << >>,
             ranges |-> << >>,
             pos |-> Len(text), out |-> o2, inpt_ranges |-> rs, reads |-> <<rem>>]
       ELSE IF has_eof_err
       THEN [blank EXCEPT !.kind = "eof"]
       ELSE [kind |-> "ok", hint |-> << >>, output |-> RStrip(o2), ranges |-> rs,
             pos |-> Len(text), out |-> o2, inpt_ranges |-> rs, reads |-> <<rem>>]

\* mutant: the leftover input is looked for before the "nothing read" check
CheckInputOutcome_LeftoverFirst(has_eof_err, text, pos, o, ranges) ==
    LET blank == [kind |-> "none", hint |-> << >>, output |-> << >>, ranges |-> << >>,
                  pos |-> pos, out |-> o, inpt_ranges |-> ranges, reads |-> << >>]
        rem   == StringIO_read(text, pos, -1)
        rs    == AppendRange(ranges, o, rem)
        o2    == EchoWrite(o, rem)
    IN IF has_eof_err THEN [blank EXCEPT !.kind = "eof"]
       ELSE IF rem # << >>
       THEN [kind |-> "leftover", hint |-> LeftoverHint(text, rem), output |-> << >>,
             ranges |-> << >>,
             pos |-> Len(text), out |-> o2, inpt_ranges |-> rs, reads |-> <<rem>>]
       ELSE IF pos = 0 THEN [blank EXCEPT !.kind = "noinput"]
       ELSE [kind |-> "ok", hint |-> << >>, output |-> RStrip(o2), ranges |-> rs,
             pos |-> Len(text), out |-> o2, inpt_ranges |-> rs, reads |-> <<rem>>]

\* the checks after the call returned or raised EOFError: the new stream state and
\* either the failure raised or the tuple handed to the assert function
CheckInputOutcome(has_eof_err, text, pos, o, ranges) ==
    IF has_eof_err
    THEN [kind |-> "eof", hint |-> << >>, output |-> << >>, ranges |-> << >>,
          pos |-> pos, out |-> o, inpt_ranges |-> ranges, reads |-> << >>]
    ELSE IF pos = 0
    THEN [kind |-> "noinput", hint |-> << >>, output |-> << >>, ranges |-> << >>,
          pos |-> pos, out |-> o, inpt_ranges |-> ranges, reads |-> << >>]
    ELSE LET rem == StringIO_read(text, pos, -1)      \* in_.read() is the wrapped _read
             rs  == AppendRange(ranges, o, rem)
             o2  == EchoWrite(o, rem)
         IN IF rem # << >>
            THEN [kind |-> "leftover", hint |-> LeftoverHint(text, rem), output |-> << >>,
                  ranges |-> << >>,
                  pos |-> Len(text), out |-> o2, inpt_ranges |-> rs, reads |-> <<rem>>]
            ELSE [kind |-> "ok", hint |-> << >>, output |-> RStrip(o2), ranges |-> rs,
                  pos |-> Len(text), out |-> o2, inpt_ranges |-> rs, reads |-> <<rem>>]

\* leave the with block and run the checks of lines 118-134
Finish(has_eof_err, how, o, ranges, pos, datas) ==
    LET r == CheckInputOutcome(has_eof_err, inpt, pos, o, ranges)
    IN /\ pc' = "done"
       /\ result' = [kind |-> r.kind, how |-> how, hint |-> r.hint,
                     output |-> r.output, ranges |-> r.ranges]
       /\ in_pos' = r.pos
       /\ out' = r.out
       /\ inpt_ranges' = r.inpt_ranges
       /\ readData' = datas \o r.reads

\* a step of the session leaves the other specifications' variables alone
SessionFrame == UNCHANGED <<mode, scopeVars, compareVars, otherVars>>

Running == mode = "session" /\ pc = "running"
CanStep == Running /\ steps < MaxSteps

\* func writes text to sys.stdout (print or sys.stdout.write)
FuncWrite(text) ==
    /\ CanStep
    /\ out' = out \o text
    /\ echoed' = echoed \o text
    /\ steps' = steps + 1
    /\ UNCHANGED <<inpt, in_pos, inpt_ranges, pc, result, funcReads, readData, pastEnd>>
    /\ SessionFrame

\* func calls sys.stdin.read(size): the wrapped _read
FuncRead(size) ==
    /\ CanStep
    /\ LET data == StringIO_read(inpt, in_pos, size)
       IN /\ in_pos' = in_pos + Len(data)
          /\ inpt_ranges' = AppendRange(inpt_ranges, out, data)
          /\ out' = EchoWrite(out, data)
          /\ echoed' = echoed \o data
          /\ funcReads' = Append(funcReads, <<Len(out), Len(data)>>)
          /\ readData' = Append(readData, data)
    /\ pastEnd' = (pastEnd \/ (size # 0 /\ in_pos = Len(inpt)))
    /\ steps' = steps + 1
    /\ UNCHANGED <<inpt, pc, result>>
    /\ SessionFrame

\* func calls sys.stdin.readline(): the wrapped _readline
FuncReadline ==
    /\ CanStep
    /\ LET data == StringIO_readline(inpt, in_pos)
       IN /\ in_pos' = in_pos + Len(data)
          /\ inpt_ranges' = AppendRange(inpt_ranges, out, data)
          /\ out' = EchoWrite(out, data)
          /\ echoed' = echoed \o data
          /\ funcReads' = Append(funcReads, <<Len(out), Len(data)>>)
          /\ readData' = Append(readData, data)
    /\ pastEnd' = (pastEnd \/ in_pos = Len(inpt))
    /\ steps' = steps + 1
    /\ UNCHANGED <<inpt, pc, result>>
    /\ SessionFrame

\* func calls input(prompt): the prompt is written to sys.stdout, then
\* sys.stdin.readline() is called; an empty line read raises EOFError, which
\* func either handles itself (handled) or lets out of the call
FuncInput(prompt, handled) ==
    /\ CanStep
    /\ LET o1   == out \o prompt
           data == StringIO_readline(inpt, in_pos)
           rs   == AppendRange(inpt_ranges, o1, data)
           o2   == EchoWrite(o1, data)
           ds   == Append(readData, data)
       IN /\ echoed' = echoed \o prompt \o data
          /\ funcReads' = Append(funcReads, <<Len(o1), Len(data)>>)
          /\ IF data = << >> /\ ~handled
             THEN Finish(TRUE, "eoferror", o2, rs, in_pos, ds)
             ELSE /\ in_pos' = in_pos + Len(data)
                  /\ inpt_ranges' = rs
                  /\ out' = o2
                  /\ readData' = ds
                  /\ UNCHANGED <<pc, result>>
    /\ pastEnd' = (pastEnd \/ in_pos = Len(inpt))
    /\ steps' = steps + 1
    /\ UNCHANGED inpt
    /\ SessionFrame

\* func returns
FuncReturn ==
    /\ Running
    /\ Finish(FALSE, "return", out, inpt_ranges, in_pos, readData)
    /\ UNCHANGED <<inpt, steps, echoed, funcReads, pastEnd>>
    /\ SessionFrame

\* func raises something that is not an EOFError (a Timeout included): it
\* leaves __check_input as it is
FuncRaise(e) ==
    /\ Running
    /\ pc' = "done"
    /\ result' = [NoResult EXCEPT !.kind = e, !.how = "raise"]
    /\ UNCHANGED <<inpt, in_pos, out, inpt_ranges, steps, echoed, funcReads, readData, pastEnd>>
    /\ SessionFrame

OtherExceptions == {"Timeout", "Error"}

-----------------------------------------------------------------------------
(* The scoped redirections: contextlib.redirect_stdout, redirect_stdin,     *)
(* _assertNoPrint, _assertNoInput, and the helpers that capture around a    *)
(* call.  Streams and functions are named by numbers: 0 is the one the      *)
(* process started with, d > 0 the one created by the scope at depth d.     *)

MaxDepth == 2
MaxOps == 4
MaxGiven == 2

ScopeKinds == {"assertOutputEqual", "check_input", "assertNoPrint", "assertNoInput"}
Raisable == {"Timeout", "Error", "EOFError"}

NoExit == [kind |-> "none", depth |-> 0, exc_in |-> "none", exc_out |-> "none",
           print_func_okay |-> TRUE, output |-> 0,
           calledPrint |-> FALSE, calledInput |-> FALSE, rawRead |-> FALSE,
           handledInput |-> FALSE]

Globals == <<sys_stdout, sys_stdin, builtins_print, builtins_input>>

Depth == Len(stack)
Top == stack[Depth]

\* the globals after __enter__ of the scope of the given kind at depth d
EnterGlobals(kind, d, print_func_okay, g) ==
    CASE kind = "assertOutputEqual" -> <<d, g[2], g[3], g[4]>>
      [] kind = "check_input"       -> <<d, d, g[3], g[4]>>
      [] kind = "assertNoPrint"     -> <<d, g[2], IF print_func_okay THEN g[3] ELSE d, g[4]>>
      [] kind = "assertNoInput"     -> <<g[1], d, g[3], d>>

\* mutant: _assertNoPrint without try/finally, builtins.print is put back
\* only when the body ends normally
ExitGlobals_NoFinally(f, g, e) ==
    CASE f.kind = "assertOutputEqual" -> <<f.old_stdout, g[2], g[3], g[4]>>
      [] f.kind = "check_input"       -> <<f.old_stdout, f.old_stdin, g[3], g[4]>>
      [] f.kind = "assertNoPrint"     ->
            <<f.old_stdout, g[2], IF e = "none" THEN f.orig_print ELSE g[3], g[4]>>
      [] f.kind = "assertNoInput"     -> <<g[1], f.old_stdin, g[3], f.orig_input>>

\* the globals after the scope f is left with exception e in flight ("none":
\* left normally): _RedirectStream.__exit__ and the finally blocks
ExitGlobals(f, g, e) ==
    CASE f.kind = "assertOutputEqual" -> <<f.old_stdout, g[2], g[3], g[4]>>
      [] f.kind = "check_input"       -> <<f.old_stdout, f.old_stdin, g[3], g[4]>>
      [] f.kind = "assertNoPrint"     -> <<f.old_stdout, g[2], f.orig_print, g[4]>>
      [] f.kind = "assertNoInput"     -> <<g[1], f.old_stdin, g[3], f.orig_input>>

\* what leaves the scope f: "none" or the exception, e being the one in flight
\* when the body ended; mismatch tells whether the comparison that follows a
\* capture finds a mismatch
ExitException(f, e, mismatch) ==
    CASE f.kind = "assertOutputEqual" ->
            IF e # "none" THEN e
            ELSE IF mismatch THEN "failure:mismatch" ELSE "none"
      [] f.kind = "check_input" ->
            IF e = "EOFError" THEN "failure:eof"
            ELSE IF e # "none" THEN e
            ELSE IF f.in_pos = 0 THEN "failure:noread"
            ELSE IF f.in_pos < f.in_len THEN "failure:leftover"
            ELSE IF mismatch THEN "failure:mismatch" ELSE "none"
      [] f.kind = "assertNoPrint" ->
            IF f.output > 0 THEN "failure:noprint" ELSE e
      [] f.kind = "assertNoInput" ->
            IF e = "EOFError" THEN "failure:noinput" ELSE e

\* a step of the scopes leaves the other specifications' variables alone
ScopesFrame == UNCHANGED <<mode, sessionVars, compareVars, otherVars>>

InBody == mode = "scopes" /\ exc = "none" /\ Depth > 0 /\ ops < MaxOps

\* the stack after n characters were written to the stream numbered k
WriteTo(stk, k, n) ==
    IF k = 0 THEN stk ELSE [stk EXCEPT ![k].output = @ + n]

\* a scope is entered: the test calls a capture helper or opens a guard
Enter(kind, print_func_okay, given) ==
    /\ mode = "scopes"
    /\ exc = "none"
    /\ ops < MaxOps
    /\ Depth < MaxDepth
    /\ LET d == Depth + 1
           g == EnterGlobals(kind, d, print_func_okay, Globals)
       IN /\ stack' = Append(stack,
                 [kind |-> kind, old_stdout |-> sys_stdout, old_stdin |-> sys_stdin,
                  orig_print |-> builtins_print, orig_input |-> builtins_input,
                  print_func_okay |-> print_func_okay,
                  output |-> 0, in_len |-> given, in_pos |-> 0,
                  entry |-> Globals,
                  calledPrint |-> FALSE, calledInput |-> FALSE, rawRead |-> FALSE,
                  handledInput |-> FALSE])
          /\ sys_stdout' = g[1]
          /\ sys_stdin' = g[2]
          /\ builtins_print' = g[3]
          /\ builtins_input' = g[4]
    /\ ops' = ops + 1
    /\ UNCHANGED <<exc, lastExit>>
    /\ ScopesFrame

\* the body calls print(text, file=...): to_stdout tells whether the file is
\* sys.stdout; handled tells whether the body catches what the call raises
CallPrint(to_stdout, handled) ==
    /\ InBody
    /\ LET marked == [i \in 1..Depth |->
                        IF stack[i].kind = "assertNoPrint"
                        THEN [stack[i] EXCEPT !.calledPrint = TRUE] ELSE stack[i]]
       IN IF builtins_print = 0
          THEN /\ stack' = IF to_stdout THEN WriteTo(marked, sys_stdout, 1) ELSE marked
               /\ exc' = "none"
          ELSE /\ stack' = marked
               /\ exc' = IF handled THEN "none" ELSE "failure:noprint"
    /\ ops' = ops + 1
    /\ UNCHANGED <<sys_stdout, sys_stdin, builtins_print, builtins_input, lastExit>>
    /\ ScopesFrame

\* the body calls sys.stdout.write with a text of n characters
WriteStdout(n) ==
    /\ InBody
    /\ stack' = WriteTo(stack, sys_stdout, n)
    /\ ops' = ops + 1
    /\ UNCHANGED <<sys_stdout, sys_stdin, builtins_print, builtins_input, exc, lastExit>>
    /\ ScopesFrame

\* the stack after the wrapped read of the scope at depth k returned n
\* characters: they are echoed into that scope's out
ReadFrom(stk, k, n) ==
    [stk EXCEPT ![k].in_pos = @ + n, ![k].output = @ + n]

\* the body calls input(): the guard's replacement raises; the builtin reads a
\* line from sys.stdin and raises EOFError when there is none
CallInput(handled) ==
    /\ InBody
    /\ builtins_input # 0 \/ sys_stdin # 0
    /\ LET marked == [i \in 1..Depth |->
                        IF stack[i].kind = "assertNoInput"
                        THEN [stack[i] EXCEPT !.calledInput = TRUE,
                                              !.handledInput = @ \/ handled]
                        ELSE stack[i]]
           k == sys_stdin
       IN IF builtins_input # 0
          THEN /\ stack' = marked
               /\ exc' = IF handled THEN "none" ELSE "failure:noinput"
          ELSE IF stack[k].in_pos < stack[k].in_len
          THEN /\ stack' = ReadFrom(marked, k, 1)
               /\ exc' = "none"
          ELSE /\ stack' = marked
               /\ exc' = IF handled THEN "none" ELSE "EOFError"
    /\ ops' = ops + 1
    /\ UNCHANGED <<sys_stdout, sys_stdin, builtins_print, builtins_input, lastExit>>
    /\ ScopesFrame

\* the body calls sys.stdin.read() or sys.stdin.readline(): the empty stream
\* of a no-input guard gives '', the stream of a capture gives its next data
RawRead ==
    /\ InBody
    /\ sys_stdin # 0
    /\ LET k == sys_stdin
           marked == [i \in 1..Depth |->
                        IF stack[i].kind = "assertNoInput"
                        THEN [stack[i] EXCEPT !.rawRead = TRUE] ELSE stack[i]]
       IN stack' = IF stack[k].kind = "check_input" /\ stack[k].in_pos < stack[k].in_len
                   THEN ReadFrom(marked, k, 1)
                   ELSE marked
    /\ ops' = ops + 1
    /\ UNCHANGED <<sys_stdout, sys_stdin, builtins_print, builtins_input, exc, lastExit>>
    /\ ScopesFrame

\* the body raises e; a Timeout may arrive at any point of it
Raise(e) ==
    /\ InBody
    /\ exc' = e
    /\ ops' = ops + 1
    /\ UNCHANGED <<sys_stdout, sys_stdin, builtins_print, builtins_input, stack, lastExit>>
    /\ ScopesFrame

\* the code around an inner scope catches the exception that left it
Catch ==
    /\ mode = "scopes"
    /\ exc # "none"
    /\ Depth > 0
    /\ lastExit.depth = Depth + 1
    /\ exc' = "none"
    /\ stack' = [i \in 1..Depth |->
                    IF stack[i].kind = "assertNoInput" /\ exc = "failure:noinput"
                    THEN [stack[i] EXCEPT !.handledInput = TRUE] ELSE stack[i]]
    /\ UNCHANGED <<sys_stdout, sys_stdin, builtins_print, builtins_input, lastExit, ops>>
    /\ ScopesFrame

\* the innermost scope is left, normally or by the exception in flight
Exit(mismatch) ==
    /\ mode = "scopes"
    /\ Depth > 0
    /\ LET f == Top
           g == ExitGlobals(f, Globals, exc)
           x == ExitException(f, exc, mismatch)
       IN /\ sys_stdout' = g[1]
          /\ sys_stdin' = g[2]
          /\ builtins_print' = g[3]
          /\ builtins_input' = g[4]
          /\ exc' = x
          /\ lastExit' = [kind |-> f.kind, depth |-> Depth, exc_in |-> exc, exc_out |-> x,
                          print_func_okay |-> f.print_func_okay, output |-> f.output,
                          calledPrint |-> f.calledPrint, calledInput |-> f.calledInput,
                          rawRead |-> f.rawRead, handledInput |-> f.handledInput]
    /\ stack' = SubSeq(stack, 1, Depth - 1)
    /\ UNCHANGED ops
    /\ ScopesFrame

\* the scopes a test can open: print_func_okay is a parameter of the no-print
\* guard alone, the given input (its length) of the input-aware capture alone
ScopeChoices ==
    {c \in [kind : ScopeKinds, okay : BOOLEAN, given : 0..MaxGiven] :
        /\ c.kind # "assertNoPrint" => c.okay
        /\ c.kind # "check_input" => c.given = 0}

NextScopes ==
    \/ \E c \in ScopeChoices : Enter(c.kind, c.okay, c.given)
    \/ \E to_stdout \in BOOLEAN, handled \in BOOLEAN : CallPrint(to_stdout, handled)
    \/ \E n \in {0, 1} : WriteStdout(n)
    \/ \E handled \in BOOLEAN : CallInput(handled)
    \/ RawRead
    \/ \E e \in Raisable : Raise(e)
    \/ Catch
    \/ \E mismatch \in BOOLEAN : Exit(mismatch)

-----------------------------------------------------------------------------
(* __check_output: the comparison of the captured text with the expected one *)
(* (without _regexp)                                                          *)

MaxText == 4

CompareAlphabet == {"a", SP, NL}
WhitespaceModes == {"strict", "relaxed", "ignore"}

\* ord(c) of the characters the texts are made of
Ord(c) ==
    CASE c = "\t" -> 9 [] c = NL -> 10 [] c = "\f" -> 12 [] c = "\r" -> 13 [] c = SP -> 32
      [] c = "a" -> 97 [] c = "b" -> 98 [] c = "x" -> 120

RECURSIVE StrLess(_, _)
\* s < t for two Python strings
StrLess(s, t) ==
    IF t = << >> THEN FALSE
    ELSE IF s = << >> THEN TRUE
    ELSE IF s[1] = t[1] THEN StrLess(Tail(s), Tail(t))
    ELSE Ord(s[1]) < Ord(t[1])

RECURSIVE InsertSorted(_, _)
InsertSorted(line, sorted) ==
    IF sorted = << >> THEN <<line>>
    ELSE IF StrLess(sorted[1], line) THEN <<sorted[1]>> \o InsertSorted(line, Tail(sorted))
    ELSE <<line>> \o sorted

RECURSIVE Sorted(_)
\* list.sort() of a list of strings
Sorted(lines) ==
    IF lines = << >> THEN << >> ELSE InsertSorted(lines[1], Sorted(Tail(lines)))

\* [line.rstrip() for line in lines]
RStripEach(lines) == [i \in 1..Len(lines) |-> RStrip(lines[i])]

\* ''.join(text.split()): the text without its whitespace characters
RemoveWhitespace(text) == SelectSeq(text, LAMBDA c : c \notin Whitespace)

\* '\n'.join(line.rstrip() for line in text.rstrip('\n').split('\n'))
Relaxed(text) == JoinWith(RStripEach(SplitOn(RStripChars(text, {NL}), NL)), NL)

\* the text compared, for the whitespace mode ws
Normalized(text, ws) ==
    IF ws = "relaxed" THEN Relaxed(text)
    ELSE IF ws = "ignore" THEN RemoveWhitespace(text)
    ELSE text

\* the list compared: split into lines, sorted when the order does not matter
ComparedLines(text, ws, ord) ==
    LET lines == SplitOn(Normalized(text, ws), NL)
    IN IF ord THEN lines ELSE Sorted(lines)

\* mismatch = printed != expected
Mismatch(printed, expected, ws, ord) ==
    ComparedLines(printed, ws, ord) # ComparedLines(expected, ws, ord)

RECURSIVE BoldRanges(_, _)
\* for start, length in inpt_ranges:
\*     printed_orig = __bold_substr(printed_orig, start, start+length)
BoldRanges(printed_orig, ranges) ==
    IF ranges = << >> THEN printed_orig
    ELSE BoldRanges(bold_substr(printed_orig, ranges[1][1], ranges[1][1] + ranges[1][2]),
                    Tail(ranges))

\* the text after 'Actual output' in the message of a mismatch
ActualBlock(printed, expected, ranges, ws, ord) ==
    IF Mismatch(printed, expected, ws, ord) THEN BoldRanges(printed, ranges) ELSE << >>

\* __check_output runs: it returns (Match) or raises the failure (Mismatch)
CheckOutput ==
    /\ mode = "compare"
    /\ cmp = "none"
    /\ cmp' = IF Mismatch(printed_raw, expected_raw, whitespace, ordered)
              THEN "Mismatch" ELSE "Match"
    /\ actual_block' = ActualBlock(printed_raw, expected_raw, << >>, whitespace, ordered)
    /\ UNCHANGED <<mode, sessionVars, scopeVars, otherVars,
                   printed_raw, expected_raw, whitespace, ordered>>

\* the expected texts a test gives for a session that captured the text t
ExpectedFor(t) == {t, RStrip(t), t \o <<"x">>}

\* _assertOutputEqualUsingUserInput after __check_input returned: the output
\* and the ranges it returned go to __check_output
AssertOutputEqualUsingUserInput(expected, ws) ==
    /\ mode = "session"
    /\ pc = "done"
    /\ result.kind = "ok"
    /\ pc' = "asserted"
    /\ printed_raw' = result.output
    /\ expected_raw' = expected
    /\ whitespace' = ws
    /\ ordered' = TRUE
    /\ cmp' = IF Mismatch(result.output, expected, ws, TRUE) THEN "Mismatch" ELSE "Match"
    /\ actual_block' = ActualBlock(result.output, expected, result.ranges, ws, TRUE)
    /\ UNCHANGED <<mode, inpt, in_pos, out, inpt_ranges, result, steps, echoed, funcReads,
                   readData, pastEnd, scopeVars, otherVars>>

\* a session, then the comparison of what it captured
NextSession ==
    \/ \E text \in WriteTexts : FuncWrite(text)
    \/ \E size \in ReadSizes : FuncRead(size)
    \/ FuncReadline
    \/ \E prompt \in Prompts, handled \in BOOLEAN : FuncInput(prompt, handled)
    \/ FuncReturn
    \/ \E e \in OtherExceptions : FuncRaise(e)
    \/ \E expected \in ExpectedFor(echoed), ws \in {"strict", "relaxed"} :
           AssertOutputEqualUsingUserInput(expected, ws)

NextCompare == CheckOutput

-----------------------------------------------------------------------------
(* The wrapped TestCase.assert* functions (_testcase_assert_mod.py).  A      *)
(* Python value is a record: a number, None, or a message string; Absent    *)
(* stands for a keyword argument that was not given.                        *)

MaxValue == 2

PyInt(n)  == [t |-> "int", v |-> n]
PyNone    == [t |-> "NoneType"]
CustomMsg == [t |-> "str"]
Absent    == [t |-> "absent"]

Values == {PyInt(n) : n \in 0..MaxValue}

\* the names of __TEMPLATES for which TestCase has an assert method
AssertNames == {"Equal", "NotEqual", "Greater", "GreaterEqual", "Less", "LessEqual",
                "AlmostEqual", "NotAlmostEqual", "True", "False", "IsNone", "IsNotNone",
                "Is", "IsNot", "IsInstance", "NotIsInstance", "In", "NotIn"}
Ordering == {"Greater", "GreaterEqual", "Less", "LessEqual"}
Almost   == {"AlmostEqual", "NotAlmostEqual"}
\* the assertions whose outcome depends on classes and containers, which are
\* not modelled: whether they fail is an input
Opaque   == {"IsNone", "IsNotNone", "IsInstance", "NotIsInstance", "In", "NotIn"}

\* __NUM_ARGS.get(name, 2)
NUM_ARGS(name) ==
    IF name \in {"True", "False", "IsNone", "IsNotNone"} THEN 1
    ELSE IF name \in Almost THEN 3 ELSE 2

NO_FUNC_CALL == {"In", "NotIn"}

DefaultPlaces == 7

\* the fields each template of __TEMPLATES formats
TemplateFields(name) ==
    CASE name \in {"AlmostEqual", "NotAlmostEqual"} -> {"expected", "actual", "places"}
      [] name \in {"AlmostEqualDelta", "NotAlmostEqualDelta"} -> {"expected", "actual", "delta"}
      [] name \in {"True", "False", "IsNone", "IsNotNone"} -> {"actual"}
      [] name = "Is" -> {"expected", "expected_id", "actual", "actual_id"}
      [] name = "IsNot" -> {"actual", "actual_id"}
      [] name \in {"IsInstance", "NotIsInstance"} -> {"expected", "actual", "actual_type"}
      [] name \in {"In", "NotIn"} -> {"second", "first"}
      [] name \in {"Contains", "NotContains"} -> {"first", "second"}
      [] OTHER -> {"expected", "actual"}

\* kwargs.get(key, default)
KwGet(value, default) == IF value = Absent THEN default ELSE value

\* the places and the delta the underlying assertion receives
GivenPlaces(args, kw) == IF Len(args) >= 3 THEN args[3] ELSE KwGet(kw.places, PyNone)
GivenDelta(args, kw)  == IF Len(args) >= 5 THEN args[5] ELSE KwGet(kw.delta, PyNone)

Abs(n) == IF n < 0 THEN -n ELSE n

\* the original TestCase.assert<name>(*args, **kwargs) returns without raising
Passes(name, args, kw, opaque_fails) ==
    LET x == args[1].v
        y == args[2].v
        d == GivenDelta(args, kw)
    IN CASE name = "Equal" -> x = y
         [] name = "NotEqual" -> x # y
         [] name = "Greater" -> x > y
         [] name = "GreaterEqual" -> x >= y
         [] name = "Less" -> x < y
         [] name = "LessEqual" -> x <= y
         [] name = "AlmostEqual" -> x = y \/ (d # PyNone /\ Abs(x - y) <= d.v)
         [] name = "NotAlmostEqual" -> x # y /\ (d # PyNone => Abs(x - y) > d.v)
         [] name = "True" -> x # 0
         [] name = "False" -> x = 0
         [] name = "Is" -> x = y
         [] name = "IsNot" -> x # y
         [] OTHER -> ~opaque_fails

\* __extract_from_assert_call(node, max_check): the index of the argument
\* that is the function call, or the IndexError of looking at a second
\* argument that is not there
ExtractFromAssertCall(node, kinds, max_check) ==
    IF node # "self.assert call" THEN [err |-> "none", index |-> -1]
    ELSE IF kinds[1] = "call" /\ Len(kinds) < 2 THEN [err |-> "IndexError", index |-> -1]
    ELSE IF kinds[1] = "call" /\ kinds[2] = "value" THEN [err |-> "none", index |-> 0]
    ELSE IF max_check > 1 /\ kinds[2] = "call" /\ kinds[1] = "value"
         THEN [err |-> "none", index |-> 1]
    ELSE [err |-> "none", index |-> -1]

\* the renaming of lines 95-96
Renamed(name) ==
    CASE name = "Greater" -> "LessEqual" [] name = "LessEqual" -> "Greater"
      [] name = "GreaterEqual" -> "Less" [] name = "Less" -> "GreaterEqual"

NoMessage == [raised |-> "AssertionError", helpful |-> "none", index |-> -1,
              actual |-> PyNone, expected |-> PyNone, places |-> PyNone, delta |-> PyNone]

\* len(args) == 2 or args[2] is not None or kwargs.get('places', None) is not None
UsesPlaces(args, kw) ==
    \/ Len(args) = 2
    \/ args[3] # PyNone
    \/ KwGet(kw.places, PyNone) # PyNone

\* __add_helpful_msg(name, ex, *args, **kwargs): the exception that leaves it
\* (the AssertionError handled, or the error raised on the way) and the
\* template and values of the message it attached
AddHelpfulMsg(name, node, kinds, args, kw) ==
    LET n       == NUM_ARGS(name)
        ext     == ExtractFromAssertCall(node, kinds, n)
        index   == ext.index
        actual  == IF n = 1 \/ index = 0 THEN args[1] ELSE args[2]
        expected == IF n = 1 THEN PyNone ELSE IF index = 0 THEN args[2] ELSE args[1]
        name1   == IF n # 1 /\ index = 0 /\ name \in Ordering THEN Renamed(name) ELSE name
        places  == KwGet(kw.places, IF Len(args) > 2 THEN args[3] ELSE PyInt(DefaultPlaces))
        byDelta == name1 \in Almost /\ ~UsesPlaces(args, kw)
        delta   == IF KwGet(kw.delta, PyNone) = PyNone THEN args[5] ELSE kw.delta
        name2   == IF byDelta THEN name1 \o "Delta" ELSE name1
        keys    == (IF n = 1 THEN {"actual"} ELSE {"actual", "expected"})
                   \cup (IF name1 \in Almost /\ ~byDelta THEN {"places"} ELSE {})
                   \cup (IF byDelta THEN {"delta"} ELSE {})
                   \cup (IF name1 \in {"Is", "IsNot"} THEN {"expected_id", "actual_id"} ELSE {})
                   \cup (IF name1 \in {"IsInstance", "IsNotInstance"} THEN {"actual_type"} ELSE {})
    IN IF name \in NO_FUNC_CALL THEN [NoMessage EXCEPT !.raised = "UnboundLocalError"]
       ELSE IF ext.err # "none" THEN [NoMessage EXCEPT !.raised = ext.err]
       ELSE IF byDelta /\ KwGet(kw.delta, PyNone) = PyNone /\ Len(args) < 5
            THEN [NoMessage EXCEPT !.raised = "IndexError", !.index = index]
       ELSE IF name1 \in {"IsInstance", "IsNotInstance"} /\ index # 0
            THEN [NoMessage EXCEPT !.index = index]
       ELSE IF ~(TemplateFields(name2) \subseteq keys)
            THEN [NoMessage EXCEPT !.raised = "KeyError", !.index = index]
       ELSE [raised |-> "AssertionError", helpful |-> name2, index |-> index,
             actual |-> actual, expected |-> expected,
             places |-> IF name1 \in Almost /\ ~byDelta THEN places ELSE PyNone,
             delta |-> IF byDelta THEN delta ELSE PyNone]

\* the ways a test can write the call: what the compared arguments are in
\* the source, the positional arguments, the keyword arguments
CallShapes(name) ==
    LET n == NUM_ARGS(name)
        compared == IF n = 1 THEN {<<x>> : x \in Values}
                    ELSE {<<x, y>> : x \in Values, y \in Values}
        P == {PyNone, PyInt(1)}
        tails == IF name \in Almost
                 THEN {<< >>} \cup {<<p>> : p \in P} \cup {<<p, PyNone>> : p \in P}
                      \cup {<<p, PyNone, d>> : p \in P, d \in P}
                 ELSE {<< >>}
        kinds == IF n = 1 THEN {<<k>> : k \in {"call", "value"}}
                 ELSE {<<k1, k2>> : k1 \in {"call", "value"}, k2 \in {"call", "value"}}
        kws == [places : IF name \in Almost THEN {Absent, PyNone, PyInt(1)} ELSE {Absent},
                delta : IF name \in Almost THEN {Absent, PyNone, PyInt(1)} ELSE {Absent},
                msg : {Absent, CustomMsg}]
    IN {c \in [node : {"self.assert call", "other"}, kinds : kinds,
               args : {a \o t : a \in compared, t \in tails}, kw : kws] :
           /\ Len(c.args) >= 3 => c.kw.places = Absent
           /\ Len(c.args) >= 4 => c.kw.msg = Absent
           /\ Len(c.args) >= 5 => c.kw.delta = Absent
           /\ GivenPlaces(c.args, c.kw) = PyNone \/ GivenDelta(c.args, c.kw) = PyNone}

\* the kinds of all positional arguments: the ones after the compared
\* arguments are values
AllKinds(c) == c.kinds \o [i \in 1..(Len(c.args) - Len(c.kinds)) |-> "value"]

\* __assert_wrapper(self, *args, **kwargs)
AssertWrapper(name, c, opaque_fails) ==
    LET n == NUM_ARGS(name)
        failed == ~Passes(name, c.args, c.kw, opaque_fails)
        plain == KwGet(c.kw.msg, PyNone) = PyNone /\ (Len(c.args) <= n \/ c.args[n + 1] = PyNone)
        r == IF ~failed THEN [NoMessage EXCEPT !.raised = "none"]
             ELSE IF plain THEN AddHelpfulMsg(name, c.node, AllKinds(c), c.args, c.kw)
             ELSE NoMessage
    IN /\ mode = "enrich"
       /\ enrich.pc = "ready"
       /\ enrich' = [pc |-> "left", name |-> name, call |-> c, failed |-> failed,
                     plain |-> plain, raised |-> r.raised, helpful |-> r.helpful,
                     index |-> r.index, actual |-> r.actual, expected |-> r.expected,
                     places |-> r.places, delta |-> r.delta]
       /\ UNCHANGED <<mode, sessionVars, scopeVars, compareVars, codec, differ, runner>>

NextEnrich ==
    \E name \in AssertNames : \E c \in CallShapes(name) :
        \E opaque_fails \in (IF name \in Opaque THEN BOOLEAN ELSE {TRUE}) :
            AssertWrapper(name, c, opaque_fails)

-----------------------------------------------------------------------------
(* __convert_to_html (__main__.py): the decoder of the style markers.  Its  *)
(* output is a sequence whose elements are characters, character entities   *)
(* and tags.                                                                *)

MaxStyled == 4
MaxRaw == 5

Styles == {"plain", "bold", "underline", "strikethrough"}
CodecAlphabet == {"a", "<"}

\* a text split into styled characters; a span is a run of one style
StyledTexts ==
    UNION {[1..n -> [style : Styles, ch : CodecAlphabet]] : n \in 0..MaxStyled}

\* the encoder of one character: __bold, __underline, __strikethrough
EncodeChar(sc) ==
    CASE sc.style = "bold" -> bold(<<sc.ch>>)
      [] sc.style = "underline" -> underline(<<sc.ch>>)
      [] sc.style = "strikethrough" -> strikethrough(<<sc.ch>>)
      [] OTHER -> <<sc.ch>>

RECURSIVE Encode(_)
\* the spans encoded one after the other
Encode(styled) ==
    IF styled = << >> THEN << >> ELSE EncodeChar(styled[1]) \o Encode(Tail(styled))

PreOpen == "<pre>"
PreClose == "</pre>"
b_ == "<b>"
ins_ == "<ins>"
del_ == "<del>"
Tags == {PreOpen, PreClose, b_, "</b>", ins_, "</ins>", del_, "</del>"}

\* ch_map
ch_map(ch) ==
    CASE ch = NL -> "<br>" [] ch = "<" -> "&lt;" [] ch = ">" -> "&gt;"
      [] ch = "&" -> "&amp;" [] ch = "\"" -> "&quot;" [] ch = "'" -> "&apos;"
ch_map_keys == {NL, "<", ">", "&", "\"", "'"}

\* the plain letter or digit of a bold one, any other character as it is
Debold(ch) ==
    IF \E c \in Alnum : BoldChar(c) = ch THEN CHOOSE c \in Alnum : BoldChar(c) = ch ELSE ch

\* mutant: a marker inside a span opens the style again
styling_OpensAgain(ch, last_ch, marker, current, start, end) ==
    IF ch = <<marker>> THEN <<<<start>>, TRUE>>
    ELSE IF current /\ last_ch # marker THEN <<<<end>> \o ch, FALSE>>
    ELSE <<ch, current>>

\* __styling(ch, last_ch, marker, current, start, end); ch is what has been
\* made of the character so far, a sequence of output elements
styling(ch, last_ch, marker, current, start, end) ==
    IF ch = <<marker>> THEN <<IF current THEN << >> ELSE <<start>>, TRUE>>
    ELSE IF current /\ last_ch # marker THEN <<<<end>> \o ch, FALSE>>
    ELSE <<ch, current>>

\* the decoder before the first character of text
CodecStart(styled, text) ==
    [pc |-> "loop", styled |-> styled, text |-> text, i |-> 1, output |-> <<PreOpen>>,
     last_ch |-> "", bolding |-> FALSE, underlining |-> FALSE, strikethrough |-> FALSE,
     encoded |-> TRUE]

\* any string of characters and markers, an encoding or not
RawTexts == TextsUpTo(CodecAlphabet \cup Markers, MaxRaw)

\* the decoder before the first character of a text no encoder made
RawStart(text) == [CodecStart(<< >>, text) EXCEPT !.encoded = FALSE]

CodecFrame == UNCHANGED <<mode, sessionVars, scopeVars, compareVars, differ, enrich, runner>>

\* one turn of the loop of lines 30-44
ConvertChar ==
    /\ mode = "codec"
    /\ codec.pc = "loop"
    /\ codec.i <= Len(codec.text)
    /\ LET raw_ch == codec.text[codec.i]
           ch0 == IF raw_ch \in ch_map_keys THEN ch_map(raw_ch) ELSE Debold(raw_ch)
           s1  == styling(<<ch0>>, codec.last_ch, BoldMarker, codec.bolding, b_, "</b>")
           s2  == styling(s1[1], codec.last_ch, UnderlineMarker, codec.underlining,
                          ins_, "</ins>")
           s3  == styling(s2[1], codec.last_ch, StrikeMarker, codec.strikethrough,
                          del_, "</del>")
       IN codec' = [codec EXCEPT !.i = codec.i + 1, !.output = codec.output \o s3[1],
                                 !.last_ch = raw_ch, !.bolding = s1[2],
                                 !.underlining = s2[2], !.strikethrough = s3[2]]
    /\ CodecFrame

\* after the loop: the styles still open are closed, then the block
ConvertFinish ==
    /\ mode = "codec"
    /\ codec.pc = "loop"
    /\ codec.i > Len(codec.text)
    /\ codec' = [codec EXCEPT
           !.pc = "done",
           !.output = codec.output
                      \o (IF codec.bolding THEN <<"</b>">> ELSE << >>)
                      \o (IF codec.underlining THEN <<"</ins>">> ELSE << >>)
                      \o (IF codec.strikethrough THEN <<"</del>">> ELSE << >>)
                      \o <<PreClose>>]
    /\ CodecFrame

NextCodec ==
    \/ ConvertChar
    \/ ConvertFinish

-----------------------------------------------------------------------------
(* The text diff engine: __diff_line and __diff_lines, over                  *)
(* difflib.SequenceMatcher.  Indices are Python's: a[i:j] starts at 0 and    *)
(* leaves j out.  A sequence compared is a text (its elements are            *)
(* characters) or a list of lines (its elements are texts).                  *)

MaxDiff == 4
MaxLines == 3

RECURSIVE MatchLength(_, _, _, _, _, _)
\* the length of the longest common run of a[i:ahi] and b[j:bhi] that starts
\* at i and j
MatchLength(a, b, i, ahi, j, bhi) ==
    IF i < ahi /\ j < bhi /\ a[i + 1] = b[j + 1]
    THEN 1 + MatchLength(a, b, i + 1, ahi, j + 1, bhi)
    ELSE 0

\* SequenceMatcher.find_longest_match(alo, ahi, blo, bhi) without junk: the
\* longest matching block, of those the one that starts earliest in a, of
\* those the one that starts earliest in b; <<alo, blo, 0>> when nothing
\* matches
FindLongestMatch(a, b, alo, ahi, blo, bhi) ==
    LET starts == {<<i, j>> : i \in alo..(ahi - 1), j \in blo..(bhi - 1)}
        size(p) == MatchLength(a, b, p[1], ahi, p[2], bhi)
        best == IF starts = {} THEN 0
                ELSE CHOOSE k \in 0..(ahi - alo) :
                        /\ \E p \in starts : size(p) = k
                        /\ \A p \in starts : size(p) <= k
    IN IF best = 0 THEN <<alo, blo, 0>>
       ELSE LET at == CHOOSE p \in starts :
                         /\ size(p) = best
                         /\ \A q \in starts : size(q) = best =>
                                (p[1] < q[1] \/ (p[1] = q[1] /\ p[2] <= q[2]))
            IN <<at[1], at[2], best>>

RECURSIVE MatchingBlocksIn(_, _, _, _, _, _)
\* the blocks get_matching_blocks finds in a[alo:ahi] and b[blo:bhi], sorted
MatchingBlocksIn(a, b, alo, ahi, blo, bhi) ==
    LET x == FindLongestMatch(a, b, alo, ahi, blo, bhi)
    IN IF x[3] = 0 THEN << >>
       ELSE MatchingBlocksIn(a, b, alo, x[1], blo, x[2])
            \o <<x>>
            \o MatchingBlocksIn(a, b, x[1] + x[3], ahi, x[2] + x[3], bhi)

RECURSIVE CollapseAdjacent(_)
\* adjacent blocks are made one
CollapseAdjacent(blocks) ==
    IF Len(blocks) < 2 THEN blocks
    ELSE LET x == blocks[1]
             y == blocks[2]
         IN IF x[1] + x[3] = y[1] /\ x[2] + x[3] = y[2]
            THEN CollapseAdjacent(<<<<x[1], x[2], x[3] + y[3]>>>> \o Tail(Tail(blocks)))
            ELSE <<x>> \o CollapseAdjacent(Tail(blocks))

\* SequenceMatcher.get_matching_blocks(): the last block is the sentinel
\* (len(a), len(b), 0)
GetMatchingBlocks(a, b) ==
    Append(CollapseAdjacent(MatchingBlocksIn(a, b, 0, Len(a), 0, Len(b))),
           <<Len(a), Len(b), 0>>)

RECURSIVE SumSizes(_)
SumSizes(blocks) == IF blocks = << >> THEN 0 ELSE blocks[1][3] + SumSizes(Tail(blocks))

\* SequenceMatcher.ratio() is 2.0 * Matches / Total, and 1.0 for Total = 0
Matches(a, b) == SumSizes(GetMatchingBlocks(a, b))
Total(a, b) == Len(a) + Len(b)

RECURSIVE OpcodesFrom(_, _, _)
\* SequenceMatcher.get_opcodes(): <<tag, i1, i2, j1, j2>>
OpcodesFrom(blocks, i, j) ==
    IF blocks = << >> THEN << >>
    ELSE LET ai == blocks[1][1]
             bj == blocks[1][2]
             size == blocks[1][3]
             tag == IF i < ai /\ j < bj THEN "replace"
                    ELSE IF i < ai THEN "delete"
                    ELSE IF j < bj THEN "insert"
                    ELSE ""
         IN (IF tag # "" THEN <<<<tag, i, ai, j, bj>>>> ELSE << >>)
            \o (IF size > 0 THEN <<<<"equal", ai, ai + size, bj, bj + size>>>> ELSE << >>)
            \o OpcodesFrom(Tail(blocks), ai + size, bj + size)

GetOpcodes(a, b) == OpcodesFrom(GetMatchingBlocks(a, b), 0, 0)

\* the limits: a fraction <<numerator, denominator>>
Limits == {<<0, 1>>, <<1, 2>>, <<1, 1>>}
Half == <<1, 2>>

\* mutant: a ratio equal to the limit is similar enough
TooDifferent_Strict(limit, matches, total) ==
    /\ limit[1] > 0
    /\ IF total = 0 THEN limit[1] > limit[2]
       ELSE limit[1] * total > 2 * matches * limit[2]

\* limit > 0 and limit >= matcher.ratio()
TooDifferent(limit, matches, total) ==
    /\ limit[1] > 0
    /\ IF total = 0 THEN limit[1] >= limit[2]
       ELSE limit[1] * total >= 2 * matches * limit[2]

\* mutant: the inserted text comes before the deleted text
ReplaceRendering_InsertFirst(a_part, b_part) == underline(b_part) \o strikethrough(a_part)

\* out += __strikethrough(a[i1:i2]); out += __underline(b[j1:j2])
ReplaceRendering(a_part, b_part) == strikethrough(a_part) \o underline(b_part)

RECURSIVE RenderOpcodes(_, _, _)
\* the loop of lines 154-163 over the opcodes
RenderOpcodes(a, b, opcodes) ==
    IF opcodes = << >> THEN << >>
    ELSE LET op == opcodes[1]
             a_part == Slice(a, op[2], op[3])
             b_part == Slice(b, op[4], op[5])
             piece == CASE op[1] = "equal" -> a_part
                        [] op[1] = "delete" -> strikethrough(a_part)
                        [] op[1] = "insert" -> underline(b_part)
                        [] op[1] = "replace" -> ReplaceRendering(a_part, b_part)
         IN piece \o RenderOpcodes(a, b, Tail(opcodes))

\* __diff_line(a, b, limit): None, or the rendering
diff_line(a, b, limit) ==
    IF TooDifferent(limit, Matches(a, b), Total(a, b))
    THEN [none |-> TRUE, text |-> << >>]
    ELSE [none |-> FALSE, text |-> RenderOpcodes(a, b, GetOpcodes(a, b))]

\* an output line of __diff_lines with the lines of a and b it stands for
\* (-1: none)
Entry(kind, text, ai, bj) == [kind |-> kind, text |-> text, ai |-> ai, bj |-> bj]

RECURSIVE PairedLines(_, _, _, _, _)
\* for a_line, b_line in zip(a[i1:i2], b[j1:j2]): one line for the pair, or
\* the a line struck and the b line underlined
PairedLines(a, b, i, j, count) ==
    IF count = 0 THEN << >>
    ELSE LET diff == diff_line(a[i + 1], b[j + 1], Half)
         IN (IF diff.none
             THEN <<Entry("delete", strikethrough(a[i + 1]), i, -1),
                    Entry("insert", underline(b[j + 1]), -1, j)>>
             ELSE <<Entry("diff", diff.text, i, j)>>)
            \o PairedLines(a, b, i + 1, j + 1, count - 1)

\* [f(k) for k in range(lo, hi)]
Range(lo, hi) == [k \in 1..(IF hi > lo THEN hi - lo ELSE 0) |-> lo + k - 1]

Min(x, y) == IF x < y THEN x ELSE y

\* mutant: the a lines left after the pairs are not written
LeftoverDeletes_Dropped(a, i1, i2, j1, j2) == << >>

\* for i in range(i1 + j2-j1, i2): out.append(__strikethrough(a[i]))
LeftoverDeletes(a, i1, i2, j1, j2) ==
    LET r == Range(i1 + j2 - j1, i2)
    IN [k \in 1..Len(r) |-> Entry("delete", strikethrough(a[r[k] + 1]), r[k], -1)]

\* for j in range(j1 + i2-i1, j2): out.append(__underline(b[j]))
LeftoverInserts(b, i1, i2, j1, j2) ==
    LET r == Range(j1 + i2 - i1, j2)
    IN [k \in 1..Len(r) |-> Entry("insert", underline(b[r[k] + 1]), -1, r[k])]

RECURSIVE LinesOfOpcodes(_, _, _)
\* the loop of lines 178-194 over the opcodes
LinesOfOpcodes(a, b, opcodes) ==
    IF opcodes = << >> THEN << >>
    ELSE LET op == opcodes[1]
             i1 == op[2]
             i2 == op[3]
             j1 == op[4]
             j2 == op[5]
             ra == Range(i1, i2)
             rb == Range(j1, j2)
             block ==
                CASE op[1] = "equal" ->
                        [k \in 1..Len(ra) |-> Entry("equal", a[ra[k] + 1], ra[k], j1 + k - 1)]
                  [] op[1] = "delete" ->
                        [k \in 1..Len(ra) |->
                            Entry("delete", strikethrough(a[ra[k] + 1]), ra[k], -1)]
                  [] op[1] = "insert" ->
                        [k \in 1..Len(rb) |->
                            Entry("insert", underline(b[rb[k] + 1]), -1, rb[k])]
                  [] op[1] = "replace" ->
                        PairedLines(a, b, i1, j1, Min(i2 - i1, j2 - j1))
                        \o LeftoverDeletes(a, i1, i2, j1, j2)
                        \o LeftoverInserts(b, i1, i2, j1, j2)
         IN block \o LinesOfOpcodes(a, b, Tail(opcodes))

\* __diff_lines(a, b): the output lines, each with what it stands for
diff_lines(a, b) == LinesOfOpcodes(a, b, GetOpcodes(a, b))

DiffAlphabet == {"a", "b"}
\* the texts compared, the documented example among them
DiffTexts == TextsUpTo(DiffAlphabet, MaxDiff) \cup {<<"c", "a", "t">>, <<"c", "a", "t", "s">>}
\* the lines the lists compared are made of
DiffLineTexts == {<< >>, <<"a">>, <<"a", "b">>, <<"b", "b">>}
DiffLists == UNION {[1..n -> DiffLineTexts] : n \in 0..MaxLines}

DifferFrame == UNCHANGED <<mode, sessionVars, scopeVars, compareVars, codec, enrich, runner>>

\* a call of __diff_line returns
DiffLine ==
    /\ mode = "diff"
    /\ differ.pc = "call"
    /\ differ.fn = "diff_line"
    /\ differ' = [differ EXCEPT !.pc = "returned",
                                !.ret = diff_line(differ.a, differ.b, differ.limit)]
    /\ DifferFrame

\* a call of __diff_lines returns
DiffLines ==
    /\ mode = "diff"
    /\ differ.pc = "call"
    /\ differ.fn = "diff_lines"
    /\ differ' = [differ EXCEPT !.pc = "returned", !.ret = diff_lines(differ.a, differ.b)]
    /\ DifferFrame

NextDiff ==
    \/ DiffLine
    \/ DiffLines

\* the calls of __diff_line: two texts and a limit
DiffLineCalls ==
    {[pc |-> "call", fn |-> "diff_line", a |-> a, b |-> b, limit |-> l, ret |-> << >>] :
        a \in DiffTexts, b \in DiffTexts, l \in Limits}

\* the calls of __diff_lines: two lists of lines
DiffLinesCalls ==
    {[pc |-> "call", fn |-> "diff_lines", a |-> a, b |-> b, limit |-> Half, ret |-> << >>] :
        a \in DiffLists, b \in DiffLists}

-----------------------------------------------------------------------------
(* HelpfulTestRunner.run and the timeout context manager (helpfultests.py). *)
(* Time is counted in ticks since the timer was armed.                      *)

TicksPerSecond == 3
MaxTests == 3
MaxDuration == 4
MaxTime == 8

\* timeout(1)
seconds == 1

\* signal.setitimer(signal.ITIMER_REAL, self.seconds, self.seconds): the
\* alarm is due every Period ticks after the timer was armed
Period == seconds * TicksPerSecond
AlarmDue(now) == now > 0 /\ now % Period = 0

\* __enter__ has armed the timer, no test has started
RunnerStart ==
    [pc |-> "between", now |-> 0, started |-> 0, need |-> 0, records |-> << >>]

RunnerFrame == UNCHANGED <<mode, sessionVars, scopeVars, compareVars, codec, differ, enrich>>

\* what HelpfulTestResult keeps of a test: when it started, how long it
\* would run undisturbed, how long it ran, and how it ended
TestRecord(r, outcome) ==
    [started |-> r.started, need |-> r.need, ran |-> r.now + 1 - r.started,
     outcome |-> outcome]

\* testcase(result) starts the next test, which needs d ticks
StartTest(d) ==
    /\ mode = "runner"
    /\ runner.pc = "between"
    /\ Len(runner.records) < MaxTests
    /\ runner' = [runner EXCEPT !.pc = "in_test", !.started = runner.now, !.need = d]
    /\ RunnerFrame

\* a tick passes while a test runs.  The test ends when its work is done; an
\* alarm that is due raises Timeout (__handle_timeout) in the code that is
\* running: in the test, where unittest hands it to addError, or, when the
\* test has just ended, in the suite after the test
TestTick ==
    /\ mode = "runner"
    /\ runner.pc = "in_test"
    /\ runner.now < MaxTime
    /\ LET finished == runner.now + 1 - runner.started = runner.need
           alarm == AlarmDue(runner.now + 1)
           timed_out == [runner EXCEPT !.pc = "between", !.now = runner.now + 1,
                             !.records = Append(runner.records, TestRecord(runner, "Timeout"))]
           passed(pc2) == [runner EXCEPT !.pc = pc2, !.now = runner.now + 1,
                             !.records = Append(runner.records, TestRecord(runner, "ok"))]
       IN \/ alarm /\ ~finished /\ runner' = timed_out
          \/ alarm /\ finished /\ runner' = passed("aborted")
          \/ ~alarm /\ finished /\ runner' = passed("between")
          \/ ~alarm /\ ~finished /\ runner' = [runner EXCEPT !.now = runner.now + 1]
    /\ RunnerFrame

\* a tick passes between two tests; an alarm that is due raises Timeout in
\* the suite, outside any test, and ends the run
SuiteTick ==
    /\ mode = "runner"
    /\ runner.pc = "between"
    /\ runner.now < MaxTime
    /\ runner' = [runner EXCEPT !.now = runner.now + 1,
                                !.pc = IF AlarmDue(runner.now + 1) THEN "aborted" ELSE "between"]
    /\ RunnerFrame

\* testcase(result) returns: stopTestRun, then __exit__ turns the timer off
StopRun ==
    /\ mode = "runner"
    /\ runner.pc = "between"
    /\ runner' = [runner EXCEPT !.pc = "done"]
    /\ RunnerFrame

NextRunner ==
    \/ \E d \in 1..MaxDuration : StartTest(d)
    \/ TestTick
    \/ SuiteTick
    \/ StopRun

\* a session starts: in_ holds the given input, nothing is read or written
InitSession ==
    /\ mode = "session"
    /\ inpt \in TextsUpTo(InputAlphabet, MaxInput)
    /\ in_pos = 0
    /\ out = << >>
    /\ inpt_ranges = << >>
    /\ pc = "running"
    /\ result = NoResult
    /\ steps = 0
    /\ echoed = << >>
    /\ funcReads = << >>
    /\ readData = << >>
    /\ pastEnd = FALSE
    /\ sys_stdout = 0
    /\ sys_stdin = 0
    /\ builtins_print = 0
    /\ builtins_input = 0
    /\ stack = << >>
    /\ exc = "none"
    /\ lastExit = NoExit
    /\ ops = 0
    /\ printed_raw = << >>
    /\ expected_raw = << >>
    /\ whitespace = "relaxed"
    /\ ordered = TRUE
    /\ cmp = "none"
    /\ actual_block = << >>
    /\ codec = Idle
    /\ differ = Idle
    /\ enrich = Idle
    /\ runner = Idle

\* a test starts with the globals of the process, no scope open
InitScopes ==
    /\ mode = "scopes"
    /\ inpt = << >>
    /\ in_pos = 0
    /\ out = << >>
    /\ inpt_ranges = << >>
    /\ pc = "running"
    /\ result = NoResult
    /\ steps = 0
    /\ echoed = << >>
    /\ funcReads = << >>
    /\ readData = << >>
    /\ pastEnd = FALSE
    /\ sys_stdout = 0
    /\ sys_stdin = 0
    /\ builtins_print = 0
    /\ builtins_input = 0
    /\ stack = << >>
    /\ exc = "none"
    /\ lastExit = NoExit
    /\ ops = 0
    /\ printed_raw = << >>
    /\ expected_raw = << >>
    /\ whitespace = "relaxed"
    /\ ordered = TRUE
    /\ cmp = "none"
    /\ actual_block = << >>
    /\ codec = Idle
    /\ differ = Idle
    /\ enrich = Idle
    /\ runner = Idle

\* __check_output is called with a captured text and an expected one
InitCompare ==
    /\ mode = "compare"
    /\ inpt = << >>
    /\ in_pos = 0
    /\ out = << >>
    /\ inpt_ranges = << >>
    /\ pc = "running"
    /\ result = NoResult
    /\ steps = 0
    /\ echoed = << >>
    /\ funcReads = << >>
    /\ readData = << >>
    /\ pastEnd = FALSE
    /\ sys_stdout = 0
    /\ sys_stdin = 0
    /\ builtins_print = 0
    /\ builtins_input = 0
    /\ stack = << >>
    /\ exc = "none"
    /\ lastExit = NoExit
    /\ ops = 0
    /\ printed_raw \in TextsUpTo(CompareAlphabet, MaxText)
    /\ expected_raw \in TextsUpTo(CompareAlphabet, MaxText)
    /\ whitespace \in WhitespaceModes
    /\ ordered \in BOOLEAN
    /\ cmp = "none"
    /\ actual_block = << >>
    /\ codec = Idle
    /\ differ = Idle
    /\ enrich = Idle
    /\ runner = Idle

\* a test is about to call a wrapped assertion
InitEnrich ==
    /\ mode = "enrich"
    /\ inpt = << >>
    /\ in_pos = 0
    /\ out = << >>
    /\ inpt_ranges = << >>
    /\ pc = "running"
    /\ result = NoResult
    /\ steps = 0
    /\ echoed = << >>
    /\ funcReads = << >>
    /\ readData = << >>
    /\ pastEnd = FALSE
    /\ sys_stdout = 0
    /\ sys_stdin = 0
    /\ builtins_print = 0
    /\ builtins_input = 0
    /\ stack = << >>
    /\ exc = "none"
    /\ lastExit = NoExit
    /\ ops = 0
    /\ printed_raw = << >>
    /\ expected_raw = << >>
    /\ whitespace = "relaxed"
    /\ ordered = TRUE
    /\ cmp = "none"
    /\ actual_block = << >>
    /\ codec = Idle
    /\ differ = Idle
    /\ enrich = [pc |-> "ready"]
    /\ runner = Idle

\* the decoder is given the encoding of a styled text, or any string
InitCodec ==
    /\ mode = "codec"
    /\ inpt = << >>
    /\ in_pos = 0
    /\ out = << >>
    /\ inpt_ranges = << >>
    /\ pc = "running"
    /\ result = NoResult
    /\ steps = 0
    /\ echoed = << >>
    /\ funcReads = << >>
    /\ readData = << >>
    /\ pastEnd = FALSE
    /\ sys_stdout = 0
    /\ sys_stdin = 0
    /\ builtins_print = 0
    /\ builtins_input = 0
    /\ stack = << >>
    /\ exc = "none"
    /\ lastExit = NoExit
    /\ ops = 0
    /\ printed_raw = << >>
    /\ expected_raw = << >>
    /\ whitespace = "relaxed"
    /\ ordered = TRUE
    /\ cmp = "none"
    /\ actual_block = << >>
    /\ \/ \E styled \in StyledTexts : codec = CodecStart(styled, Encode(styled))
       \/ \E text \in RawTexts : codec = RawStart(text)
    /\ differ = Idle
    /\ enrich = Idle
    /\ runner = Idle

\* the diff engine is called
InitDiff ==
    /\ mode = "diff"
    /\ inpt = << >>
    /\ in_pos = 0
    /\ out = << >>
    /\ inpt_ranges = << >>
    /\ pc = "running"
    /\ result = NoResult
    /\ steps = 0
    /\ echoed = << >>
    /\ funcReads = << >>
    /\ readData = << >>
    /\ pastEnd = FALSE
    /\ sys_stdout = 0
    /\ sys_stdin = 0
    /\ builtins_print = 0
    /\ builtins_input = 0
    /\ stack = << >>
    /\ exc = "none"
    /\ lastExit = NoExit
    /\ ops = 0
    /\ printed_raw = << >>
    /\ expected_raw = << >>
    /\ whitespace = "relaxed"
    /\ ordered = TRUE
    /\ cmp = "none"
    /\ actual_block = << >>
    /\ codec = Idle
    /\ (differ \in DiffLineCalls \/ differ \in DiffLinesCalls)
    /\ enrich = Idle
    /\ runner = Idle

\* the runner has entered timeout(1)
InitRunner ==
    /\ mode = "runner"
    /\ inpt = << >>
    /\ in_pos = 0
    /\ out = << >>
    /\ inpt_ranges = << >>
    /\ pc = "running"
    /\ result = NoResult
    /\ steps = 0
    /\ echoed = << >>
    /\ funcReads = << >>
    /\ readData = << >>
    /\ pastEnd = FALSE
    /\ sys_stdout = 0
    /\ sys_stdin = 0
    /\ builtins_print = 0
    /\ builtins_input = 0
    /\ stack = << >>
    /\ exc = "none"
    /\ lastExit = NoExit
    /\ ops = 0
    /\ printed_raw = << >>
    /\ expected_raw = << >>
    /\ whitespace = "relaxed"
    /\ ordered = TRUE
    /\ cmp = "none"
    /\ actual_block = << >>
    /\ codec = Idle
    /\ differ = Idle
    /\ enrich = Idle
    /\ runner = RunnerStart

SpecSession == InitSession /\ [][NextSession]_vars

SpecScopes == InitScopes /\ [][NextScopes]_vars

SpecCompare == InitCompare /\ [][NextCompare]_vars

SpecEnrich == InitEnrich /\ [][NextEnrich]_vars

SpecCodec == InitCodec /\ [][NextCodec]_vars

SpecDiff == InitDiff /\ [][NextDiff]_vars

SpecRunner == InitRunner /\ [][NextRunner]_vars

-----------------------------------------------------------------------------
(* Claims about the capture session (SpecSession) *)

SessionDone == mode = "session" /\ pc = "done"
Returned == SessionDone /\ result.how = "return"

RECURSIVE SumLengths(_)
SumLengths(ranges) ==
    IF ranges = << >> THEN 0 ELSE ranges[1][2] + SumLengths(Tail(ranges))

\* the part of inpt func had consumed when it stopped
ConsumedPrefix == SubSeq(inpt, 1, SumLengths(funcReads))

\* the last line of a non-empty text, without its line terminator
LastLineOf(text) ==
    LET body   == IF text[Len(text)] = NL THEN SubSeq(text, 1, Len(text) - 1) ELSE text
        pieces == SplitOn(body, NL)
    IN pieces[Len(pieces)]

\* C1: the output text a successful session returns is exactly the
\* concatenation, in order of occurrence, of everything func wrote and
\* everything its reads returned.
C1_OutputIsConcatenation ==
    (SessionDone /\ result.kind = "ok") => result.output = echoed

\* C2: a successful session returns exactly one Input Range per read func
\* made: the i-th is <<length of the output before the i-th read, length of
\* the data it returned>>.
C2_OneRangePerRead ==
    (SessionDone /\ result.kind = "ok") => result.ranges = funcReads

\* C3: at every point of a session the Input Ranges are sorted by
\* non-decreasing offset, do not overlap, and each has the length of the data
\* returned by the read that created it.
C3_RangesSortedDisjoint ==
    mode = "session" =>
        /\ Len(inpt_ranges) = Len(readData)
        /\ \A i \in 1..Len(inpt_ranges) : inpt_ranges[i][2] = Len(readData[i])
        /\ \A i \in 1..(Len(inpt_ranges) - 1) :
              /\ inpt_ranges[i][1] <= inpt_ranges[i + 1][1]
              /\ inpt_ranges[i][1] + inpt_ranges[i][2] <= inpt_ranges[i + 1][1]

\* two non-empty reads with a write of func between them
C3_Witness ==
    /\ mode = "session"
    /\ Len(inpt_ranges) >= 2
    /\ inpt_ranges[1][2] > 0
    /\ inpt_ranges[2][2] > 0
    /\ inpt_ranges[2][1] > inpt_ranges[1][1] + inpt_ranges[1][2]

\* C5 (as stated): when func asked for input (read, readline or input())
\* after all of the input had been consumed, the session ends in the
\* end-of-input failure.  Stated for a non-empty input, all of it consumed.
C5_ReadPastEndFails ==
    (SessionDone /\ pastEnd /\ inpt # << >> /\ result.how # "raise") => result.kind = "eof"

\* C5 (amended): the session ends in the end-of-input failure exactly when an
\* input() call made with no input left raised EOFError and func let it out;
\* a func that returns never gets that failure, whatever raw reads it made.
C5_UnhandledEOFErrorFails ==
    SessionDone =>
        /\ result.how = "eoferror" => (result.kind = "eof" /\ pastEnd)
        /\ result.how = "return" => result.kind # "eof"

\* input() at the end of a non-empty, fully consumed input
C5_Witness ==
    /\ SessionDone
    /\ result.how = "eoferror"
    /\ result.kind = "eof"
    /\ Len(inpt) > 0
    /\ in_pos = Len(inpt)

\* C6: when func returns having consumed a non-empty proper prefix of the
\* input, the session fails with the leftover-input failure and the hint is
\* the last line of the consumed prefix.
C6_HintIsLastConsumedLine ==
    (Returned /\ ConsumedPrefix # << >> /\ Len(ConsumedPrefix) < Len(inpt)) =>
        /\ result.kind = "leftover"
        /\ result.hint = LastLineOf(ConsumedPrefix)

\* C7: when func returns without ever having read, no Input Range was
\* recorded and the session fails with the "did not read any input" failure.
C7_NeverReadsFails ==
    (Returned /\ funcReads = << >>) =>
        /\ result.kind = "noinput"
        /\ inpt_ranges = << >>

\* func wrote something, read nothing, and input was waiting
C7_Witness ==
    /\ Returned
    /\ funcReads = << >>
    /\ out # << >>
    /\ inpt # << >>
    /\ result.kind = "noinput"

-----------------------------------------------------------------------------
(* Claims about the scopes (SpecScopes) *)

\* C4: whenever a capture helper or a guard is left, normally or by any
\* exception raised in its body (a Timeout and the guards' own failures
\* included), sys.stdout, sys.stdin, builtins.print and builtins.input hold
\* the values they had just before that scope was entered, however the
\* scopes are nested.
C4_ExitRestoresGlobals ==
    [][(mode = "scopes" /\ Len(stack') < Len(stack)) =>
          <<sys_stdout', sys_stdin', builtins_print', builtins_input'>> = Top.entry]_vars

\* a no-print guard nested in another scope was left by a Timeout, after it
\* had replaced both sys.stdout and builtins.print
C4_Witness ==
    /\ mode = "scopes"
    /\ lastExit.kind = "assertNoPrint"
    /\ ~lastExit.print_func_okay
    /\ lastExit.depth = 2
    /\ lastExit.exc_in = "Timeout"
    /\ Depth = 1
    /\ Top.kind = "assertNoInput"
    /\ builtins_print = 0
    /\ sys_stdout = 0

\* C8: a no-print guard with print_func_okay=False in which print was called,
\* or into whose sys.stdout something was written, is left by the test
\* failure that carries the guard's message, whatever the guarded code did
\* afterwards.
C8_PrintAlwaysFailsGuard ==
    (/\ mode = "scopes"
     /\ lastExit.kind = "assertNoPrint"
     /\ ~lastExit.print_func_okay
     /\ (lastExit.calledPrint \/ lastExit.output > 0))
    => lastExit.exc_out = "failure:noprint"

\* C9: a no-input guard in which input() was called (and the guarded code
\* did not handle what the call raised), or sys.stdin was read, or an
\* EOFError was raised, is left by the test failure that carries the guard's
\* message.
C9_InputAlwaysFailsGuard ==
    (/\ mode = "scopes"
     /\ lastExit.kind = "assertNoInput"
     /\ \/ lastExit.calledInput /\ ~lastExit.handledInput
        \/ lastExit.rawRead
        \/ lastExit.exc_in = "EOFError")
    => lastExit.exc_out = "failure:noinput"

-----------------------------------------------------------------------------
(* Claims about the comparison (SpecCompare) *)

RECURSIVE DropTrailingEmpty(_)
DropTrailingEmpty(lines) ==
    IF lines # << >> /\ lines[Len(lines)] = << >>
    THEN DropTrailingEmpty(SubSeq(lines, 1, Len(lines) - 1))
    ELSE lines

\* a text up to the whitespace that ends its lines and the blank lines that
\* end it
UpToTrailingWhitespace(text) == DropTrailingEmpty(RStripEach(SplitOn(text, NL)))

\* C10: in the relaxed mode, ordered, two texts that differ only in
\* whitespace at the end of lines and in blank lines at the end of the text
\* are reported as a Match.
C10_RelaxedIgnoresTrailingWhitespace ==
    (/\ mode = "compare"
     /\ cmp # "none"
     /\ whitespace = "relaxed"
     /\ ordered
     /\ UpToTrailingWhitespace(printed_raw) = UpToTrailingWhitespace(expected_raw))
    => cmp = "Match"

-----------------------------------------------------------------------------
(* Claims about the comparison after a session (SpecSession) *)

Asserted == mode = "session" /\ pc = "asserted"

\* C11: in strict mode the input-aware assertion passes exactly when the text
\* the function produced, program output and echoed input together, equals
\* the expected text character for character, trailing whitespace and
\* newlines included.
C11_StrictPassesIffEqual ==
    (Asserted /\ whitespace = "strict") => ((cmp = "Match") <=> (echoed = expected_raw))

\* the number of characters, markers left out, among the first i elements
PlainCount(block, i) == Cardinality({k \in 1..i : block[k] # BoldMarker})

\* the positions, counted in the captured output, of the characters that
\* follow a bold marker
BoldPositions(block) ==
    {PlainCount(block, i) : i \in {k \in 2..Len(block) :
                                      block[k] # BoldMarker /\ block[k-1] = BoldMarker}}

\* the positions of the captured output that lie inside some Input Range
InputPositions(ranges, n) ==
    {k \in 1..n : \E i \in 1..Len(ranges) : ranges[i][1] < k /\ k <= ranges[i][1] + ranges[i][2]}

\* C12: in the 'Actual output' block of a mismatch message the bold characters
\* are exactly the characters of the captured output that lie inside some
\* Input Range, whatever the number and the lengths of the reads.
C12_BoldIsExactlyInput ==
    (Asserted /\ cmp = "Mismatch") =>
        BoldPositions(actual_block) = InputPositions(result.ranges, Len(result.output))

-----------------------------------------------------------------------------
(* Claims about the wrapped assertions (SpecEnrich) *)

\* a wrapped assertion failed and no custom message was given
FailedPlain == mode = "enrich" /\ enrich.pc = "left" /\ enrich.failed /\ enrich.plain

\* C13: for every wrapped assertion kind and every call shape, when the
\* underlying assertion fails and no custom message is given, what leaves
\* the wrapper is the assertion failure, carrying an enriched message.
C13_FailureStaysFailure ==
    FailedPlain => (enrich.raised = "AssertionError" /\ enrich.helpful # "none")

\* the relation a template names, between the actual and the expected value
Holds(relation, actual, expected) ==
    CASE relation = "Greater" -> actual > expected
      [] relation = "GreaterEqual" -> actual >= expected
      [] relation = "Less" -> actual < expected
      [] relation = "LessEqual" -> actual <= expected

\* C14: the relation the enriched message of a failed ordering assertion asks
\* of the actual value holds exactly when the original assertion would have
\* passed: for the values that made it fail, it does not hold.
C14_OrderingMessageDirection ==
    (FailedPlain /\ enrich.name \in Ordering /\ enrich.helpful # "none") =>
        ~Holds(enrich.helpful, enrich.actual.v, enrich.expected.v)

\* C15: the enriched message of a failed approximate-equality assertion uses
\* the delta template whenever a delta was given, by keyword or by position,
\* and the places template, with 7 places by default, only otherwise.
C15_DeltaTemplateWhenDeltaGiven ==
    (FailedPlain /\ enrich.name \in Almost /\ enrich.helpful # "none") =>
        LET d == GivenDelta(enrich.call.args, enrich.call.kw)
            p == GivenPlaces(enrich.call.args, enrich.call.kw)
        IN IF d # PyNone
           THEN enrich.helpful = enrich.name \o "Delta" /\ enrich.delta = d
           ELSE /\ enrich.helpful = enrich.name
                /\ enrich.places = (IF p = PyNone THEN PyInt(7) ELSE p)

-----------------------------------------------------------------------------
(* Claims about the decoder (SpecCodec) *)

Decoded == mode = "codec" /\ codec.pc = "done"

\* the elements of the output that are not tags, in order
Content(output) == SelectSeq(output, LAMBDA e : e \notin Tags)

\* the place in the output of its k-th element that is not a tag
ContentIndex(output, k) ==
    CHOOSE j \in 1..Len(output) :
        /\ output[j] \notin Tags
        /\ Cardinality({m \in 1..j : output[m] \notin Tags}) = k

\* the tag open is open at place j of the output
OpenAt(output, j, open, close) ==
    \E m \in 1..j : output[m] = open /\ \A q \in m..j : output[q] # close

\* the styles whose markup encloses place j of the output
StylesAt(output, j) ==
    {st \in Styles \ {"plain"} :
        CASE st = "bold" -> OpenAt(output, j, b_, "</b>")
          [] st = "underline" -> OpenAt(output, j, ins_, "</ins>")
          [] st = "strikethrough" -> OpenAt(output, j, del_, "</del>")}

\* the original text under the escaping map
Escaped(styled) ==
    [k \in 1..Len(styled) |->
        IF styled[k].ch \in ch_map_keys THEN ch_map(styled[k].ch) ELSE styled[k].ch]

\* C16: for a text split into spans that are unstyled or encoded as bold,
\* underline or strikethrough, in any order and also directly adjacent, the
\* decoded output holds no raw marker, is the escaped text once its markup
\* is removed, and encloses every character in the markup of its span's
\* style and in no other.
C16_DecodeWrapsEverySpan ==
    (Decoded /\ codec.encoded) =>
        /\ \A j \in 1..Len(codec.output) : codec.output[j] \notin Markers
        /\ Content(codec.output) = Escaped(codec.styled)
        /\ \A k \in 1..Len(codec.styled) :
               StylesAt(codec.output, ContentIndex(codec.output, k)) =
                   (IF codec.styled[k].style = "plain" THEN {} ELSE {codec.styled[k].style})

-----------------------------------------------------------------------------
(* Claims about the diff engine (SpecDiff) *)

LineReturned == mode = "diff" /\ differ.pc = "returned" /\ differ.fn = "diff_line"
LinesReturned == mode = "diff" /\ differ.pc = "returned" /\ differ.fn = "diff_lines"

\* the similarity ratio of a and b is at most the fraction limit
RatioAtMost(a, b, limit) ==
    IF Total(a, b) = 0 THEN limit[2] <= limit[1]
    ELSE 2 * Matches(a, b) * limit[2] <= limit[1] * Total(a, b)

\* C17: __diff_line returns None exactly when the limit is positive and the
\* similarity ratio is at most the limit: never with limit 0.0, always with
\* limit 1.0, and never for identical texts with a limit below 1.
C17_NoneIffTooDifferent ==
    LineReturned =>
        /\ differ.ret.none <=> (differ.limit[1] > 0 /\ RatioAtMost(differ.a, differ.b, differ.limit))
        /\ differ.limit[1] = 0 => ~differ.ret.none
        /\ differ.limit[1] = differ.limit[2] => differ.ret.none
        /\ (differ.a = differ.b /\ differ.limit[1] < differ.limit[2]) => ~differ.ret.none

\* two different texts whose ratio is exactly the limit 0.5: None is returned
C17_Witness ==
    /\ LineReturned
    /\ differ.limit = Half
    /\ differ.a # differ.b
    /\ 4 * Matches(differ.a, differ.b) = Total(differ.a, differ.b)
    /\ differ.ret.none

RECURSIVE Without(_, _)
\* the rendering without the characters marked with marker, and without the
\* markers of the other characters
Without(r, marker) ==
    IF r = << >> THEN << >>
    ELSE IF r[1] = marker THEN Without(Tail(Tail(r)), marker)
    ELSE IF r[1] \in Markers THEN Without(Tail(r), marker)
    ELSE <<r[1]>> \o Without(Tail(r), marker)

\* C18: a rendering __diff_line returns gives a once the underlined
\* characters are deleted and b once the struck characters are deleted; no
\* struck text directly follows underlined text; for a = b it is a without
\* any marker; and 'cat' against 'cats' is 'cat' and an underlined 's'.
C18_RenderingHoldsBothTexts ==
    (LineReturned /\ ~differ.ret.none) =>
        LET r == differ.ret.text
        IN /\ Without(r, UnderlineMarker) = differ.a
           /\ Without(r, StrikeMarker) = differ.b
           /\ \A p \in 1..(Len(r) - 2) : r[p] = UnderlineMarker => r[p + 2] # StrikeMarker
           /\ differ.a = differ.b => r = differ.a
           /\ (differ.a = <<"c", "a", "t">> /\ differ.b = <<"c", "a", "t", "s">>) =>
                  r = <<"c", "a", "t", UnderlineMarker, "s">>

\* a rendering with a replaced part: struck text, then underlined text
C18_Witness ==
    /\ LineReturned
    /\ ~differ.ret.none
    /\ \E p \in 1..(Len(differ.ret.text) - 2) :
           differ.ret.text[p] = StrikeMarker /\ differ.ret.text[p + 2] = UnderlineMarker

\* the lines of a, and of b, the entries stand for, in the order of the output
LinesOfA(e) == SelectSeq([k \in 1..Len(e) |-> e[k].ai], LAMBDA i : i >= 0)
LinesOfB(e) == SelectSeq([k \in 1..Len(e) |-> e[k].bj], LAMBDA j : j >= 0)

\* the place in the output of the entry that stands for line i of a, j of b
EntryOfA(e, i) == CHOOSE k \in 1..Len(e) : e[k].ai = i
EntryOfB(e, j) == CHOOSE k \in 1..Len(e) : e[k].bj = j

\* what an entry shows is what its kind says of the lines it stands for
EntryShown(a, b, x) ==
    CASE x.kind = "equal" -> x.text = a[x.ai + 1] /\ x.text = b[x.bj + 1]
      [] x.kind = "delete" -> x.text = strikethrough(a[x.ai + 1]) /\ x.bj = -1
      [] x.kind = "insert" -> x.text = underline(b[x.bj + 1]) /\ x.ai = -1
      [] x.kind = "diff" ->
            /\ ~RatioAtMost(a[x.ai + 1], b[x.bj + 1], Half)
            /\ Without(x.text, UnderlineMarker) = a[x.ai + 1]
            /\ Without(x.text, StrikeMarker) = b[x.bj + 1]

\* the lines of a replace block: the first min(m, n) in pairs, the rest alone
ReplaceBlockShown(a, b, e, op) ==
    LET i1 == op[2]
        i2 == op[3]
        j1 == op[4]
        j2 == op[5]
        pairs == Min(i2 - i1, j2 - j1)
    IN /\ \A k \in 0..(pairs - 1) :
              LET ea == EntryOfA(e, i1 + k)
                  eb == EntryOfB(e, j1 + k)
              IN \/ ea = eb /\ e[ea].kind = "diff"
                 \/ /\ eb = ea + 1
                    /\ e[ea].kind = "delete"
                    /\ e[eb].kind = "insert"
                    /\ RatioAtMost(a[i1 + k + 1], b[j1 + k + 1], Half)
       /\ \A i \in (i1 + pairs)..(i2 - 1) : e[EntryOfA(e, i)].kind = "delete"
       /\ \A j \in (j1 + pairs)..(j2 - 1) : e[EntryOfB(e, j)].kind = "insert"

\* C19: __diff_lines accounts for every line of a and every line of b once
\* and in order; in a replace block of m a-lines and n b-lines the first
\* min(m, n) are paired, a pair being one character-diffed line or, at a
\* ratio of at most 0.5, the a line struck and then the b line underlined,
\* and the lines left are struck or underlined one by one.
C19_ReplaceBlockPairsLines ==
    LinesReturned =>
        LET e == differ.ret
            opcodes == GetOpcodes(differ.a, differ.b)
        IN /\ LinesOfA(e) = [k \in 1..Len(differ.a) |-> k - 1]
           /\ LinesOfB(e) = [k \in 1..Len(differ.b) |-> k - 1]
           /\ \A k \in 1..Len(e) : EntryShown(differ.a, differ.b, e[k])
           /\ \A k \in 1..Len(opcodes) :
                  opcodes[k][1] = "replace" =>
                      ReplaceBlockShown(differ.a, differ.b, e, opcodes[k])

\* a replace block of three a-lines and two b-lines: a pair shown as one
\* line, a pair shown as two, and an a line left
C19_Witness ==
    /\ LinesReturned
    /\ GetOpcodes(differ.a, differ.b) = <<<<"replace", 0, 3, 0, 2>>>>
    /\ \E k \in 1..Len(differ.ret) : differ.ret[k].kind = "diff"
    /\ \E k \in 1..(Len(differ.ret) - 1) :
           differ.ret[k].kind = "delete" /\ differ.ret[k + 1].kind = "insert"
    /\ differ.ret[Len(differ.ret)].kind = "delete"

-----------------------------------------------------------------------------
(* Claims about the runner's timeout (SpecRunner) *)

\* C20: in a run of several tests a test is recorded as Timeout only if its
\* own execution lasted as long as the configured timeout; a test that runs
\* for less than the timeout is never recorded as timed out, wherever in
\* the run it starts.
C20_TimeoutIsPerTest ==
    mode = "runner" =>
        \A k \in 1..Len(runner.records) :
            LET r == runner.records[k]
            IN /\ r.outcome = "Timeout" => r.ran >= Period
               /\ r.need < Period => r.outcome # "Timeout"

\* the number of elements e among the first j of the output
CountOf(output, j, e) == Cardinality({k \in 1..j : output[k] = e})

\* the opening tags of a style are as many as its closing tags, and no
\* closing tag comes while the style is not open
Balanced(output, open, close) ==
    /\ CountOf(output, Len(output), open) = CountOf(output, Len(output), close)
    /\ \A j \in 1..Len(output) :
           output[j] = close => CountOf(output, j, close) <= CountOf(output, j, open)

\* C21: for every input string, an encoding or not, the decoded output
\* starts with the opener of the preformatted block and ends with its
\* closer; each style has as many opening as closing tags and is never
\* closed while it is not open; a style open at the end of the input is
\* closed before the block is; the empty input gives the empty block.
C21_OutputIsWellFormed ==
    Decoded =>
        LET o == codec.output
        IN /\ o[1] = PreOpen
           /\ o[Len(o)] = PreClose
           /\ CountOf(o, Len(o), PreOpen) = 1
           /\ CountOf(o, Len(o), PreClose) = 1
           /\ Balanced(o, b_, "</b>")
           /\ Balanced(o, ins_, "</ins>")
           /\ Balanced(o, del_, "</del>")
           /\ codec.text = << >> => o = <<PreOpen, PreClose>>

\* a string no encoder made, ending in a bold marker: the style it opens is
\* closed at the end of the input, right before the block
C21_Witness ==
    /\ Decoded
    /\ ~codec.encoded
    /\ Len(codec.text) > 1
    /\ codec.text[Len(codec.text)] = BoldMarker
    /\ codec.text[Len(codec.text) - 1] \notin Markers
    /\ codec.output[Len(codec.output) - 1] = "</b>"
    /\ codec.output[Len(codec.output) - 2] = b_

====
